---- MODULE Spec2Model ----
(***************************************************************************)
(* A model of the two moonstar extraction scripts:                         *)
(*   src/src/mtu_trk.py  English-Turkish container MTU.TRK (ReadFile,      *)
(*                       ExpandMorpheme)                                   *)
(*   src/src/mtu_tur.py  Turkish container MTU.TUR (Import, GetSuffix,     *)
(*                       GetSuffixReodered, ApplyModifications,            *)
(*                       ReadDictionaryEntries, Export)                    *)
(*                                                                         *)
(* Text is a sequence of Unicode code points ("ab" is <<97, 98>>); a file  *)
(* is a sequence of bytes 0..255, byte k of the file being data[k + 1].    *)
(* A Python exception ends the run: pc = "error" and error names it.       *)
(***************************************************************************)
EXTENDS Integers, Sequences, FiniteSets, TLC

VARIABLES
  pc,             \* where the program is
  error,          \* the exception that ended the run, or "none"
  input,          \* ghost: the description the container was built from
  data,           \* the file's bytes
  pos,            \* read position in data
  base_offset,    \* ReadFile / Import: base of the offset-addressed region
  dictionary,     \* the entries appended so far
  offsets,        \* ReadFile: the 676-entry offset map
  i,              \* ReadFile: the prefix index of the outer loop
  previous_word,  \* ReadFile: the fold variable
  entry,          \* ReadFile: the locals of the last loop body executed
  header,         \* Import: the four header lengths
  prefixes,       \* Import: entry count per two-letter prefix
  section4,       \* Import: the 4-byte instruction records
  section6,       \* Import: the 4-byte modification records
  item_index,     \* ReadDictionaryEntries: index of the bucket's first record
  prefix_pos,     \* ReadDictionaryEntries: position in prefixes
  output,         \* Export: the lines written
  args,           \* a direct call of one function: its arguments
  ret,            \* a direct call: the value returned
  steps           \* a direct call: the selectors applied so far

vars == <<pc, error, input, data, pos, base_offset, dictionary, offsets, i,
          previous_word, entry, header, prefixes, section4, section6,
          item_index, prefix_pos, output, args, ret, steps>>

trkVars == <<offsets, i, previous_word, entry>>
turVars == <<header, prefixes, section4, section6, item_index, prefix_pos>>
fileVars == <<input, data, pos, base_offset, dictionary, output>>
callVars == <<args, ret, steps>>

-----------------------------------------------------------------------------
(* Python sequence operations.                                             *)

Min(a, b) == IF a < b THEN a ELSE b

Max(a, b) == IF a > b THEN a ELSE b

\* s[a:b] for 0 <= a: the slice is cut at the end of s, never an error.
Slice(s, a, b) == SubSeq(s, a + 1, Min(b, Len(s)))

\* s[:n] for n >= 0
Take(s, n) == Slice(s, 0, n)

\* s[n:] for n >= 0
Drop(s, n) == Slice(s, n, Len(s))

\* s[::-1]
Reverse(s) == [k \in 1..Len(s) |-> s[Len(s) + 1 - k]]

\* whether s[k] raises IndexError (k may be negative: Python counts from the end)
IndexRaises(s, k) == k >= Len(s) \/ k < -Len(s)

\* s[k] when it does not raise
At(s, k) == IF k >= 0 THEN s[k + 1] ELSE s[Len(s) + k + 1]

\* struct.unpack("<H", b): raises struct.error unless b has exactly 2 bytes
UnpackRaises(b) == Len(b) # 2

UnpackH(b) == b[1] + 256 * b[2]

\* one result of a function that may raise
Ok(v) == [error |-> "none", value |-> v]

Raise(e) == [error |-> e, value |-> <<>>]

Upper(c) == IF c \in 97..122 THEN c - 32 ELSE c

Lower(c) == IF c \in 65..90 THEN c + 32 ELSE c

\* str.title() of a word of ASCII letters: first letter upper case, rest lower case
Title_NoCapital(s) == s

Title(s) == [k \in 1..Len(s) |-> IF k = 1 THEN Upper(s[k]) ELSE Lower(s[k])]

RECURSIVE Concat(_)
\* ''.join(ss)
Concat(ss) == IF ss = <<>> THEN <<>> ELSE Head(ss) \o Concat(Tail(ss))

-----------------------------------------------------------------------------
(* mtu_trk.py                                                              *)

suffixes ==
  <<
    <<97,98,105,108,105,116,121>>, <<105,98,105,108,105,116,121>>, <<105,118,101,110,101,115,115>>,  \* ability ibility iveness
    <<105,122,97,116,105,111,110>>, <<102,117,108,110,101,115,115>>, <<111,117,115,110,101,115,115>>,  \* ization fulness ousness
    <<101,99,116,111,109,121>>, <<101,100,110,101,115,115>>, <<108,105,110,101,115,115>>,  \* ectomy edness liness
    <<105,99,97,108,108,121>>, <<108,101,115,115,108,121>>, <<97,108,105,116,121>>,  \* ically lessly ality
    <<97,108,105,115,109>>, <<97,110,116,108,121>>, <<97,114,105,97,110>>,  \* alism antly arian
    <<97,116,105,110,103>>, <<97,116,105,111,110>>, <<97,116,105,118,101>>,  \* ating ation ative
    <<97,116,111,114,121>>, <<98,101,114,114,121>>, <<98,111,97,114,100>>,  \* atory berry board
    <<98,111,117,110,100>>, <<101,114,105,110,103>>, <<101,115,113,117,101>>,  \* bound ering esque
    <<102,117,108,108,121>>, <<104,111,117,115,101>>, <<105,97,108,108,121>>,  \* fully house ially
    <<105,110,101,115,115>>, <<105,110,103,108,121>>, <<105,111,110,97,108>>,  \* iness ingly ional
    <<105,115,116,105,99>>, <<105,116,105,111,110>>, <<105,118,101,108,121>>,  \* istic ition ively
    <<105,118,105,116,121>>, <<108,105,103,104,116>>, <<111,108,111,103,121>>,  \* ivity light ology
    <<111,114,105,117,109>>, <<111,117,115,108,121>>, <<115,116,111,110,101>>,  \* orium ously stone
    <<117,97,108,108,121>>, <<97,98,108,101>>, <<97,110,99,101>>,  \* ually able ance
    <<97,110,99,121>>, <<97,108,108,121>>, <<97,116,101,100>>,  \* ancy ally ated
    <<98,97,99,107>>, <<98,97,108,108>>, <<98,97,110,100>>,  \* back ball band
    <<98,105,110,103>>, <<98,105,114,100>>, <<98,111,97,116>>,  \* bing bird boat
    <<98,111,110,101>>, <<98,111,111,107>>, <<99,105,100,101>>,  \* bone book cide
    <<99,117,108,101>>, <<100,105,110,103>>, <<100,111,119,110>>,  \* cule ding down
    <<101,110,99,101>>, <<101,110,99,121>>, <<101,110,101,114>>,  \* ence ency ener
    <<101,116,116,101>>, <<102,111,108,100>>, <<103,105,110,103>>,  \* ette fold ging
    <<104,101,97,100>>, <<104,111,111,100>>, <<105,98,108,101>>,  \* head hood ible
    <<105,99,97,108>>, <<105,99,108,101>>, <<105,110,103,115>>,  \* ical icle ings
    <<105,111,117,115>>, <<105,116,105,115>>, <<105,122,101,114>>,  \* ious itis izer
    <<108,97,110,100>>, <<108,101,115,115>>, <<108,105,107,101>>,  \* land less like
    <<108,105,110,101>>, <<108,105,110,103>>, <<108,111,103,121>>,  \* line ling logy
    <<109,97,107,101>>, <<109,101,110,116>>, <<109,105,110,103>>,  \* make ment ming
    <<110,101,115,115>>, <<110,105,110,103>>, <<110,116,108,121>>,  \* ness ning ntly
    <<111,115,105,115>>, <<111,118,101,114>>, <<112,105,110,103>>,  \* osis over ping
    <<114,105,110,103>>, <<114,111,111,109>>, <<115,104,105,112>>,  \* ring room ship
    <<115,105,100,101>>, <<115,105,110,103>>, <<115,109,97,110>>,  \* side sing sman
    <<115,111,109,101>>, <<115,116,101,114>>, <<116,97,105,108>>,  \* some ster tail
    <<116,105,109,101>>, <<116,105,110,103>>, <<119,105,115,101>>,  \* time ting wise
    <<119,111,111,100>>, <<119,111,114,107>>, <<119,111,114,116>>,  \* wood work wort
    <<97,99,121>>, <<97,100,101>>, <<97,103,101>>,  \* acy ade age
    <<97,110,100>>, <<97,110,116>>, <<97,114,121>>,  \* and ant ary
    <<97,116,101>>, <<98,108,101>>, <<98,111,121>>,  \* ate ble boy
    <<100,111,109>>, <<101,110,100>>, <<101,110,116>>,  \* dom end ent
    <<101,114,121>>, <<101,115,101>>, <<101,115,115>>,  \* ery ese ess
    <<101,115,116>>, <<101,117,114>>, <<102,117,108>>,  \* est eur ful
    <<103,101,114>>, <<105,97,108>>, <<105,97,110>>,  \* ger ial ian
    <<105,100,101>>, <<105,101,100>>, <<105,101,114>>,  \* ide ied ier
    <<105,108,101>>, <<105,108,121>>, <<105,110,101>>,  \* ile ily ine
    <<105,110,103>>, <<105,111,110>>, <<105,115,101>>,  \* ing ion ise
    <<105,115,104>>, <<105,115,109>>, <<105,115,116>>,  \* ish ism ist
    <<105,116,101>>, <<105,116,121>>, <<105,117,109>>,  \* ite ity ium
    <<105,118,101>>, <<105,122,101>>, <<107,105,110>>,  \* ive ize kin
    <<108,101,114>>, <<108,101,116>>, <<109,97,110>>,  \* ler let man
    <<109,101,100>>, <<110,99,101>>, <<110,101,100>>,  \* med nce ned
    <<111,105,100>>, <<111,109,101>>, <<111,111,110>>,  \* oid ome oon
    <<111,114,121>>, <<111,117,115>>, <<111,117,116>>,  \* ory ous out
    <<112,101,114>>, <<114,101,100>>, <<114,101,114>>,  \* per red rer
    <<115,101,100>>, <<116,101,100>>, <<116,101,114>>,  \* sed ted ter
    <<116,105,99>>, <<117,97,108>>, <<117,108,101>>,  \* tic ual ule
    <<117,114,101>>, <<119,97,121>>, <<121,101,114>>,  \* ure way yer
    <<97,101>>, <<97,108>>, <<97,110>>,  \* ae al an
    <<97,114>>, <<98,121>>, <<99,104>>,  \* ar by ch
    <<99,121>>, <<101,100>>, <<101,108>>,  \* cy ed el
    <<101,110>>, <<101,114>>, <<101,116>>,  \* en er et
    <<101,121>>, <<102,121>>, <<105,97>>,  \* ey fy ia
    <<105,99>>, <<105,101>>, <<105,110>>,  \* ic ie in
    <<105,115>>, <<108,121>>, <<110,116>>,  \* is ly nt
    <<111,110>>, <<111,114>>, <<111,119>>,  \* on or ow
    <<114,121>>, <<115,116>>, <<116,104>>,  \* ry st th
    <<116,111>>, <<116,121>>, <<117,115>>  \* to ty us
  >>

\* the code page: byte -> code point, -1 where cp857 has no character
cp857 ==
  <<
    0, 1, 2, 3, 4, 5, 6, 7, 8, 9, 10, 11, 12, 13, 14, 15,
    16, 17, 18, 19, 20, 21, 22, 23, 24, 25, 26, 27, 28, 29, 30, 31,
    32, 33, 34, 35, 36, 37, 38, 39, 40, 41, 42, 43, 44, 45, 46, 47,
    48, 49, 50, 51, 52, 53, 54, 55, 56, 57, 58, 59, 60, 61, 62, 63,
    64, 65, 66, 67, 68, 69, 70, 71, 72, 73, 74, 75, 76, 77, 78, 79,
    80, 81, 82, 83, 84, 85, 86, 87, 88, 89, 90, 91, 92, 93, 94, 95,
    96, 97, 98, 99, 100, 101, 102, 103, 104, 105, 106, 107, 108, 109, 110, 111,
    112, 113, 114, 115, 116, 117, 118, 119, 120, 121, 122, 123, 124, 125, 126, 127,
    199, 252, 233, 226, 228, 224, 229, 231, 234, 235, 232, 239, 238, 305, 196, 197,
    201, 230, 198, 244, 246, 242, 251, 249, 304, 214, 220, 248, 163, 216, 350, 351,
    225, 237, 243, 250, 241, 209, 286, 287, 191, 174, 172, 189, 188, 161, 171, 187,
    9617, 9618, 9619, 9474, 9508, 193, 194, 192, 169, 9571, 9553, 9559, 9565, 162, 165, 9488,
    9492, 9524, 9516, 9500, 9472, 9532, 227, 195, 9562, 9556, 9577, 9574, 9568, 9552, 9580, 164,
    186, 170, 202, 203, 200, -1, 205, 206, 207, 9496, 9484, 9608, 9604, 166, 204, 9600,
    211, 223, 212, 210, 245, 213, 181, -1, 215, 218, 219, 217, 236, 255, 175, 180,
    173, 177, -1, 190, 182, 167, 247, 184, 176, 168, 183, 185, 179, 178, 9632, 160
  >>

\* b.decode("cp857") raises UnicodeDecodeError on a byte without a character
DecodeRaises(b) == \E k \in 1..Len(b) : cp857[b[k] + 1] = -1

Decode(b) == [k \in 1..Len(b) |-> cp857[b[k] + 1]]

\* the two-letter prefix of a prefix index
Prefix_Swapped(prefix_index) == <<97 + (prefix_index % 26), 97 + (prefix_index \div 26)>>

Prefix(prefix_index) == <<97 + (prefix_index \div 26), 97 + (prefix_index % 26)>>

\* the instructions whose branch reads suffixes[suffix_index]
UsesSuffix(instruction) ==
  \/ instruction = 128
  \/ instruction = 160
  \/ (192 < instruction /\ instruction < 208)
  \/ (224 < instruction /\ instruction < 240)

ExpandMorphemeRaises(instruction, suffix_index) ==
  UsesSuffix(instruction) /\ IndexRaises(suffixes, suffix_index)

\* The int comparisons written with "is" compare bytes, which CPython keeps as
\* the cached objects of -5..256: they decide as == does.
ExpandMorpheme(prefix_index, morpheme, previous_morpheme, instruction, suffix_index) ==
  LET prefix == Prefix(prefix_index)
      r == IF instruction = 0 \/ instruction = 18
             THEN [prefix |-> prefix, morpheme |-> morpheme]
           ELSE IF instruction = 32
             THEN [prefix |-> Title(prefix), morpheme |-> morpheme]
           ELSE IF 64 < instruction /\ instruction < 80
             THEN [prefix |-> prefix,
                   morpheme |-> Take(previous_morpheme, instruction - 64) \o morpheme]
           ELSE IF 96 < instruction /\ instruction < 112
             THEN [prefix |-> Title(prefix),
                   morpheme |-> Take(previous_morpheme, instruction - 96) \o morpheme]
           ELSE IF instruction = 128
             THEN [prefix |-> prefix,
                   morpheme |-> morpheme \o At(suffixes, suffix_index)]
           ELSE IF instruction = 160
             THEN [prefix |-> Title(prefix),
                   morpheme |-> morpheme \o At(suffixes, suffix_index)]
           ELSE IF 192 < instruction /\ instruction < 208
             THEN [prefix |-> prefix,
                   morpheme |-> Take(previous_morpheme, instruction - 192) \o morpheme
                                  \o At(suffixes, suffix_index)]
           ELSE IF 224 < instruction /\ instruction < 240
             THEN [prefix |-> Title(prefix),
                   morpheme |-> Take(previous_morpheme, instruction - 224) \o morpheme
                                  \o At(suffixes, suffix_index)]
           ELSE [prefix |-> prefix, morpheme |-> morpheme]
  IN r.prefix \o r.morpheme


\* struct.unpack("<L", b + b'\x00'): raises struct.error unless b has 3 bytes
Unpack3Raises(b) == Len(b) # 3

Unpack3(b) == b[1] + 256 * b[2] + 65536 * b[3]

\* ReadFile's first loop, reading count offsets from position p on: it raises
\* struct.error when a read falls off the end of the file
OffsetMapRaises(bytes, p, count) ==
  \E j \in 0..(count - 1) : Unpack3Raises(Slice(bytes, p + 3 * j, p + 3 * j + 3))

ReadOffsetMap(bytes, p, count) ==
  [j \in 1..count |-> Unpack3(Slice(bytes, p + 3 * (j - 1), p + 3 * j))]

\* the translation offset of a record whose three offset bytes are b0 b1 b2, as
\* data[pos + 1] | (data[pos + 2] << 8) | (data[pos] << 16); the three bytes fill
\* disjoint bits, so the bitwise or is the sum
TranslationOffset_LittleEndian(b0, b1, b2) == b0 + 256 * b1 + 65536 * b2

TranslationOffset(b0, b1, b2) == b1 + 256 * b2 + 65536 * b0

\* turkish.replace('\x60', '\'').replace('\xA0', '#')
Replaced(s) ==
  [k \in 1..Len(s) |-> IF s[k] = 96 THEN 39 ELSE IF s[k] = 160 THEN 35 ELSE s[k]]

\* previous_word = english[2:]
NextPreviousWord_KeepPrefix(english) == english

NextPreviousWord(english) == Drop(english, 2)

\* the bucket the for loop is in when it next enters the while loop, from bucket
\* first on; 676 when it enters it no more
NextBucket(first, p, base, offs) ==
  LET S == {j \in first..(Len(offs) - 1) : p < base + offs[j + 1]}
  IN IF S = {} THEN Len(offs) ELSE CHOOSE j \in S : \A m \in S : j <= m

\* the length of the morpheme starting at p: the distance to the next 0xFF, or -1
\* when the file ends first (data[pos + en_len] raises IndexError)
MorphemeLength(bytes, p) ==
  LET S == {n \in 0..(Len(bytes) - 1 - p) : bytes[p + n + 1] = 255}
  IN IF S = {} THEN -1 ELSE CHOOSE n \in S : \A m \in S : n <= m

\* One execution of the while loop's body in bucket b at position p with the given
\* previous word and the stale tr_len of the iteration before: the locals at its
\* end, or the exception it raises.
ReadEntryBody(bytes, b, p, base, previous, stale_len) ==
  IF IndexRaises(bytes, p) THEN Raise("IndexError")
  ELSE
  LET instruction == At(bytes, p)
      has_suffix == instruction >= 128
      p2 == IF has_suffix THEN p + 2 ELSE p + 1
  IN
  IF has_suffix /\ IndexRaises(bytes, p + 1) THEN Raise("IndexError")
  ELSE
  LET suffix_index == IF has_suffix THEN At(bytes, p + 1) ELSE 0
      en_len == MorphemeLength(bytes, p2)
  IN
  IF en_len = -1 THEN Raise("IndexError")
  ELSE IF DecodeRaises(Slice(bytes, p2, p2 + en_len)) THEN Raise("UnicodeDecodeError")
  ELSE IF ExpandMorphemeRaises(instruction, suffix_index) THEN Raise("IndexError")
  ELSE
  LET english == ExpandMorpheme(b, Decode(Slice(bytes, p2, p2 + en_len)), previous,
                                instruction, suffix_index)
      p3 == p2 + en_len + 1
  IN
  IF IndexRaises(bytes, p3 + 2) THEN Raise("IndexError")
  ELSE
  LET tr_offset == TranslationOffset(At(bytes, p3), At(bytes, p3 + 1), At(bytes, p3 + 2))
      tr_pos == base + tr_offset
      done(tr_len, turkish) ==
        Ok([instruction |-> instruction, suffix_index |-> suffix_index,
            en_len |-> en_len, english |-> english, tr_offset |-> tr_offset,
            tr_len |-> tr_len, turkish |-> turkish, pos |-> p3 + 3])
  IN
  IF tr_offset > 0
    THEN IF UnpackRaises(Slice(bytes, tr_pos, tr_pos + 2)) THEN Raise("struct.error")
         ELSE LET tr_len == UnpackH(Slice(bytes, tr_pos, tr_pos + 2))
                  raw == Slice(bytes, tr_pos + 2, tr_pos + 2 + tr_len)
              IN IF tr_len > 0
                   THEN IF DecodeRaises(raw) THEN Raise("UnicodeDecodeError")
                        ELSE done(tr_len, Replaced(Decode(raw)))
                   ELSE done(tr_len, <<>>)
    ELSE done(stale_len, <<>>)

\* ' ' * n
Spaces(n) == [k \in 1..Max(n, 0) |-> 32]

\* one line of MTU.TRK.TXT
TrkLine(e) == e[1] \o Spaces(30 - Len(e[1])) \o e[2] \o <<10>>

\* ReadFile, lines 112-129: the offset map
ReadOffsets ==
  /\ pc = "start"
  /\ LET map == ReadOffsetMap(data, 3, 26 * 26)
     IN IF OffsetMapRaises(data, 3, 26 * 26)
          THEN /\ pc' = "error" /\ error' = "struct.error"
               /\ UNCHANGED <<pos, offsets, base_offset>>
          ELSE /\ pc' = "loop" /\ error' = error
               /\ offsets' = map
               /\ pos' = 3 + 3 * Len(map)
               /\ base_offset' = 3 + 3 * Len(map)
  /\ i' = 0
  /\ previous_word' = <<>>
  /\ dictionary' = <<>>
  /\ UNCHANGED <<input, data, entry, output, turVars, callVars>>

\* ReadFile, lines 130-175: the next execution of the while loop's body
ReadEntry ==
  /\ pc = "loop"
  /\ NextBucket(i, pos, base_offset, offsets) < Len(offsets)
  /\ LET b == NextBucket(i, pos, base_offset, offsets)
         r == ReadEntryBody(data, b, pos, base_offset, previous_word, entry.tr_len)
     IN IF r.error # "none"
          THEN /\ pc' = "error" /\ error' = r.error
               /\ UNCHANGED <<pos, i, previous_word, entry, dictionary>>
          ELSE /\ pc' = pc /\ error' = error
               /\ i' = b
               /\ pos' = r.value.pos
               /\ previous_word' = NextPreviousWord(r.value.english)
               /\ entry' = r.value
               /\ dictionary' = Append(dictionary, <<r.value.english, r.value.turkish>>)
  /\ UNCHANGED <<input, data, base_offset, offsets, output, turVars, callVars>>

\* ReadFile, lines 177-184: the for loop has run out; the entries are written
ExportTrk ==
  /\ pc = "loop"
  /\ NextBucket(i, pos, base_offset, offsets) = Len(offsets)
  /\ pc' = "done"
  /\ i' = Len(offsets) - 1
  /\ output' = [k \in 1..Len(dictionary) |-> TrkLine(dictionary[k])]
  /\ UNCHANGED <<error, input, data, pos, base_offset, dictionary, offsets,
                 previous_word, entry, turVars, callVars>>

-----------------------------------------------------------------------------
(* mtu_tur.py                                                              *)

\* the custom alphabet: index -> code point (46 is the '.' of an unknown letter)
alphabet ==
  <<97, 98, 99, 231, 100, 101, 102, 103, 287, 104, 305, 105, 106, 107, 108, 109, 110, 111, 246, 112, 113, 114, 115, 351, 116, 117, 252, 118, 119, 120, 121, 122, 226, 46, 46, 46, 46, 46, 46, 46, 46, 46, 46, 238, 46, 46, 46, 46, 46, 46, 46, 46, 46, 46, 46, 46, 46, 46, 251>>

GetSuffixLength(value) ==
  IF 0 <= value /\ value < 184
    THEN value \div 8
  ELSE IF 184 <= value /\ value < 256
    THEN 3 + ((value - 184) \div 24)
  ELSE -1

\* suffix[-1] and suffix[0] raise IndexError on the empty string
ReorderRaises(suffix, value) ==
  /\ value >= 184
  /\ (value - 184) % 24 < 16
  /\ suffix = <<>>

GetSuffixReodered_LeftFirst(suffix, value) ==
  IF value >= 184
    THEN LET v == (value - 184) % 24
         IN IF 0 <= v /\ v < 8
              THEN Drop(suffix, 1) \o <<At(suffix, 0)>>
            ELSE IF 8 <= v /\ v < 16
              THEN <<At(suffix, -1)>> \o Take(suffix, Len(suffix) - 1)
            ELSE IF 16 <= v /\ v < 24
              THEN Reverse(suffix)
            ELSE suffix
    ELSE suffix

GetSuffixReodered(suffix, value) ==
  IF value >= 184
    THEN LET v == (value - 184) % 24
         IN IF 0 <= v /\ v < 8
              THEN <<At(suffix, -1)>> \o Take(suffix, Len(suffix) - 1)
            ELSE IF 8 <= v /\ v < 16
              THEN Drop(suffix, 1) \o <<At(suffix, 0)>>
            ELSE IF 16 <= v /\ v < 24
              THEN Reverse(suffix)
            ELSE suffix
    ELSE suffix

RECURSIVE Letters(_, _, _)
\* the loops of GetSuffix: alphabet[b[first]], alphabet[b[first + 1]], ... for
\* count bytes; IndexError when b or the alphabet has no such index
Letters(b, first, count) ==
  IF count = 0 THEN Ok(<<>>)
  ELSE IF IndexRaises(b, first) THEN Raise("IndexError")
  ELSE IF IndexRaises(alphabet, At(b, first)) THEN Raise("IndexError")
  ELSE LET rest == Letters(b, first + 1, count - 1)
       IN IF rest.error # "none" THEN rest
          ELSE Ok(<<At(alphabet, At(b, first))>> \o rest.value)

\* GetSuffix up to, not including, the reordering
ResolveSuffix_FromFileStart(bytes, instructions, base) ==
  IF IndexRaises(instructions, 1) THEN Raise("IndexError")
  ELSE LET suffix_length == GetSuffixLength(At(instructions, 1))
       IN IF suffix_length = 0 THEN Ok(<<>>)
          ELSE IF 1 <= suffix_length /\ suffix_length <= 2
            THEN Letters(instructions, 2, suffix_length)
          ELSE IF UnpackRaises(Slice(instructions, 2, 4)) THEN Raise("struct.error")
          ELSE Letters(bytes, UnpackH(Slice(instructions, 2, 4)), suffix_length)

ResolveSuffix(bytes, instructions, base) ==
  IF IndexRaises(instructions, 1) THEN Raise("IndexError")
  ELSE LET suffix_length == GetSuffixLength(At(instructions, 1))
       IN IF suffix_length = 0 THEN Ok(<<>>)
          ELSE IF 1 <= suffix_length /\ suffix_length <= 2
            THEN Letters(instructions, 2, suffix_length)
          ELSE IF UnpackRaises(Slice(instructions, 2, 4)) THEN Raise("struct.error")
          ELSE Letters(bytes, base + UnpackH(Slice(instructions, 2, 4)), suffix_length)

GetSuffix(bytes, instructions, base) ==
  LET r == ResolveSuffix(bytes, instructions, base)
  IN IF r.error # "none" THEN r
     ELSE IF ReorderRaises(r.value, At(instructions, 1)) THEN Raise("IndexError")
     ELSE Ok(GetSuffixReodered(r.value, At(instructions, 1)))

HexDigit(d) == IF d < 10 THEN 48 + d ELSE 87 + d

\* format(value, '02x')
ByteToHex(value) == <<HexDigit(value \div 16), HexDigit(value % 16)>>

\* b -> p, c -> c-cedilla, d -> t, g -> k, soft g -> k
consonants_NoSoftG == (98 :> 112) @@ (99 :> 231) @@ (100 :> 116) @@ (103 :> 107)

consonants == (98 :> 112) @@ (99 :> 231) @@ (100 :> 116) @@ (103 :> 107) @@ (287 :> 107)

ApplyModifications(modification, prefix, suffix) ==
  IF suffix # <<>> /\ At(suffix, -1) \in DOMAIN consonants
    THEN <<prefix, Take(suffix, Len(suffix) - 1) \o <<consonants[At(suffix, -1)]>> >>
    ELSE <<prefix, suffix>>

\* count little-endian 16-bit words from position p on: struct.unpack raises
\* struct.error when the file ends inside one
WordsRaise(bytes, p, count) ==
  \E k \in 0..(count - 1) : UnpackRaises(Slice(bytes, p + 2 * k, p + 2 * k + 2))

ReadWords(bytes, p, count) ==
  [k \in 1..count |-> UnpackH(Slice(bytes, p + 2 * (k - 1), p + 2 * k))]

\* count 4-byte records from position p on: the slices are cut at the end of the
\* file, they never raise
ReadRecords(bytes, p, count) ==
  [k \in 1..count |-> Slice(bytes, p + 4 * (k - 1), p + 4 * k)]

\* A combination of English and Turkish letters
letter_count == 32

\* the prefix of prefix index j: two letters of the alphabet
TurPrefix(j) == <<At(alphabet, j \div letter_count), At(alphabet, j % letter_count)>>

\* count = section2[prefix_index + 1] - section2[prefix_index]
PrefixCount_EndOffset(section2, j) == At(section2, j + 1)

PrefixCount(section2, j) == At(section2, j + 1) - At(section2, j)

\* the position behind one section-3 entry at p: pos += 1, a 2-byte value, pos += 11
Section3EntryEnd_ThreeBytes(p) == p + 1 + 2

Section3EntryEnd(p) == p + 1 + 2 + 11

RECURSIVE Section3End(_, _, _)
\* the section-3 loop over count entries from p on: the position behind them, or
\* -1 when a value cannot be unpacked
Section3End(bytes, p, count) ==
  IF count = 0 THEN p
  ELSE IF UnpackRaises(Slice(bytes, p + 1, p + 3)) THEN -1
  ELSE Section3End(bytes, Section3EntryEnd(p), count - 1)

\* item_index += count
NextItemIndex_Stuck(item, count) == item

NextItemIndex(item, count) == item + count

\* the text ReadDictionaryEntries puts before prefix and suffix
Debug(record) ==
  ByteToHex(At(record, 1) % 8) \o <<32, 32, 32, 32>>
    \o ByteToHex(At(record, 1)) \o <<32>>
    \o ByteToHex(At(record, 0)) \o <<32>>
    \o <<32, 32, 32>>

\* The body of ReadDictionaryEntries' inner loop for index k under prefix index j:
\* the entry appended, or the exception raised.
DictionaryEntry(bytes, base, s4, s6, j, k) ==
  IF IndexRaises(s4, k) THEN Raise("IndexError in ReadDictionaryEntries")
  ELSE
  LET record == At(s4, k)
      suffix == GetSuffix(bytes, record, base)
  IN
  IF suffix.error # "none" THEN Raise(suffix.error \o " in GetSuffix")
  ELSE IF IndexRaises(s6, At(record, 0)) THEN Raise("IndexError in ReadDictionaryEntries")
  ELSE
  LET modified == ApplyModifications(At(s6, At(record, 0)), TurPrefix(j), suffix.value)
  IN Ok(Debug(record) \o modified[1] \o modified[2])

\* the first prefix index from first on whose count is not 0, or the number of
\* prefixes: a count of 0 is skipped by "continue", which leaves item_index alone
NextCounted(counts, first) ==
  LET S == {j \in first..(Len(counts) - 1) : counts[j + 1] # 0}
  IN IF S = {} THEN Len(counts) ELSE CHOOSE j \in S : \A m \in S : j <= m

\* an Import that compares the magic number before it reads the header
ReadHeader_CheckMagic ==
  /\ pc = "start"
  /\ IF Slice(data, 0, 4) # <<77, 71, 50, 26>>
       THEN pc' = "error" /\ error' = "MalformedContainer in Import"
            /\ UNCHANGED <<pos, header>>
       ELSE IF WordsRaise(data, 4, 4)
         THEN pc' = "error" /\ error' = "struct.error in Import"
              /\ UNCHANGED <<pos, header>>
         ELSE /\ pc' = "section1" /\ error' = error
              /\ header' = ReadWords(data, 4, 4)
              /\ pos' = 4 + 2 * 4
  /\ dictionary' = <<>>
  /\ UNCHANGED <<input, data, base_offset, output, prefixes, section4, section6,
                 item_index, prefix_pos, trkVars, callVars>>

\* Import, lines 213-225: the magic number is skipped, the header read
ReadHeader ==
  /\ pc = "start"
  /\ IF WordsRaise(data, 4, 4)
       THEN pc' = "error" /\ error' = "struct.error in Import" /\ UNCHANGED <<pos, header>>
       ELSE /\ pc' = "section1" /\ error' = error
            /\ header' = ReadWords(data, 4, 4)
            /\ pos' = 4 + 2 * 4
  /\ dictionary' = <<>>
  /\ UNCHANGED <<input, data, base_offset, output, prefixes, section4, section6,
                 item_index, prefix_pos, trkVars, callVars>>

\* Import, lines 227-238: section1 is read and not used again
ReadSection1 ==
  /\ pc = "section1"
  /\ IF WordsRaise(data, pos, letter_count + 1)
       THEN pc' = "error" /\ error' = "struct.error in Import" /\ pos' = pos
       ELSE pc' = "section2" /\ error' = error /\ pos' = pos + 2 * (letter_count + 1)
  /\ UNCHANGED <<input, data, base_offset, dictionary, output, turVars, trkVars, callVars>>

\* Import, lines 240-255: section2 becomes the count of entries of each prefix
ReadSection2 ==
  /\ pc = "section2"
  /\ LET n == letter_count * letter_count + 1
     IN IF WordsRaise(data, pos, n)
          THEN pc' = "error" /\ error' = "struct.error in Import"
               /\ UNCHANGED <<pos, prefixes>>
          ELSE /\ pc' = "section3" /\ error' = error
               /\ pos' = pos + 2 * n
               /\ prefixes' = LET section2 == ReadWords(data, pos, n)
                              IN [j \in 1..(n - 1) |-> PrefixCount(section2, j - 1)]
  /\ UNCHANGED <<input, data, base_offset, dictionary, output, header, section4,
                 section6, item_index, prefix_pos, trkVars, callVars>>

\* Import, lines 257-267: section3 is read and not used again
ReadSection3 ==
  /\ pc = "section3"
  /\ LET end == Section3End(data, pos, At(header, 1))
     IN IF end = -1
          THEN pc' = "error" /\ error' = "struct.error in Import" /\ pos' = pos
          ELSE pc' = "section4" /\ error' = error /\ pos' = end
  /\ UNCHANGED <<input, data, base_offset, dictionary, output, turVars, trkVars, callVars>>

\* Import, lines 269-278
ReadSection4 ==
  /\ pc = "section4"
  /\ pc' = "section5"
  /\ section4' = ReadRecords(data, pos, At(header, 0))
  /\ pos' = pos + 4 * At(header, 0)
  /\ UNCHANGED <<error, input, data, base_offset, dictionary, output, header, prefixes,
                 section6, item_index, prefix_pos, trkVars, callVars>>

\* Import, lines 280-284: the suffix blob is passed over
SkipSection5 ==
  /\ pc = "section5"
  /\ pc' = "section6"
  /\ base_offset' = pos
  /\ pos' = pos + At(header, 2)
  /\ UNCHANGED <<error, input, data, dictionary, output, turVars, trkVars, callVars>>

\* Import, lines 286-294, and ReadDictionaryEntries up to its first counted prefix
ReadSection6 ==
  /\ pc = "section6"
  /\ pc' = "entries"
  /\ section6' = ReadRecords(data, pos, At(header, 3))
  /\ pos' = pos + 4 * At(header, 3)
  /\ item_index' = 0
  /\ prefix_pos' = NextCounted(prefixes, 0)
  /\ i' = 0
  /\ UNCHANGED <<error, input, data, base_offset, dictionary, output, header, prefixes,
                 section4, offsets, previous_word, entry, callVars>>

\* ReadDictionaryEntries, lines 184-209: one pass of the inner loop
ReadDictionaryEntry ==
  /\ pc = "entries"
  /\ prefix_pos < Len(prefixes)
  /\ i < item_index + At(prefixes, prefix_pos)
  /\ LET r == DictionaryEntry(data, base_offset, section4, section6, prefix_pos, i)
     IN IF r.error # "none"
          THEN pc' = "error" /\ error' = r.error /\ UNCHANGED <<dictionary, i, entry>>
          ELSE /\ pc' = pc /\ error' = error
               /\ dictionary' = Append(dictionary, r.value)
               /\ entry' = [i |-> i, prefix |-> prefix_pos]
               /\ i' = i + 1
  /\ UNCHANGED <<input, data, pos, base_offset, output, turVars, offsets, previous_word,
                 callVars>>

\* ReadDictionaryEntries, lines 181-184 and 211: the inner loop is over, item_index
\* moves on by the count, the outer loop goes to the next counted prefix
NextPrefix ==
  /\ pc = "entries"
  /\ prefix_pos < Len(prefixes)
  /\ ~(i < item_index + At(prefixes, prefix_pos))
  /\ item_index' = NextItemIndex(item_index, At(prefixes, prefix_pos))
  /\ i' = item_index'
  /\ prefix_pos' = NextCounted(prefixes, prefix_pos + 1)
  /\ UNCHANGED <<pc, error, input, data, pos, base_offset, dictionary, output, header,
                 prefixes, section4, section6, offsets, previous_word, entry, callVars>>

\* Export, lines 296-300, once ReadDictionaryEntries has returned
ExportTur ==
  /\ pc = "entries"
  /\ prefix_pos = Len(prefixes)
  /\ pc' = "done"
  /\ output' = [k \in 1..Len(dictionary) |-> dictionary[k] \o <<10>>]
  /\ UNCHANGED <<error, input, data, pos, base_offset, dictionary, turVars, trkVars,
                 callVars>>

-----------------------------------------------------------------------------
(* The values of the variables a specification does not use.               *)

IdleFile ==
  /\ input = <<>> /\ data = <<>> /\ pos = 0 /\ base_offset = 0 /\ dictionary = <<>>
  /\ output = <<>>

IdleTrk ==
  /\ offsets = <<>> /\ i = 0 /\ previous_word = <<>> /\ entry = <<>>

IdleTur ==
  /\ header = <<>> /\ prefixes = <<>> /\ section4 = <<>> /\ section6 = <<>>
  /\ item_index = 0 /\ prefix_pos = 0

IdleCall ==
  /\ args = <<>> /\ ret = <<>> /\ steps = <<>>

-----------------------------------------------------------------------------
(* ExpandMorpheme called directly on sampled arguments.                    *)

\* "", "ness"
MorphemeSample == {<<>>, <<110, 101, 115, 115>>}

\* "", "ca", "cathood"
PreviousSample == {<<>>, <<99, 97>>, <<99, 97, 116, 104, 111, 111, 100>>}

\* aa, az, ba, bb, zz
PrefixIndexSample == {0, 25, 26, 27, 675}

\* the first and last index of each length group of the suffix table
SuffixIndexSample == {0, 5, 6, 10, 11, 39, 40, 101, 102, 164, 165, 194}

InitExpand ==
  /\ pc = "call"
  /\ error = "none"
  /\ args \in [prefix_index : PrefixIndexSample, morpheme : MorphemeSample,
               previous_morpheme : PreviousSample, instruction : 0..255,
               suffix_index : SuffixIndexSample]
  /\ ret = <<>>
  /\ steps = <<>>
  /\ IdleFile /\ IdleTrk /\ IdleTur

CallExpandMorpheme ==
  /\ pc = "call"
  /\ pc' = "return"
  /\ ret' = ExpandMorpheme(args.prefix_index, args.morpheme, args.previous_morpheme,
                           args.instruction, args.suffix_index)
  /\ UNCHANGED <<error, args, steps, fileVars, trkVars, turVars>>

NextExpand == CallExpandMorpheme

SpecExpand == InitExpand /\ [][NextExpand]_vars

\* what the instruction table says of a code
ClaimCapitalizes(code) ==
  code = 32 \/ code \in 97..111 \/ code = 160 \/ code \in 225..239

ClaimPrepends(code) ==
  code \in 65..79 \/ code \in 97..111 \/ code \in 193..207 \/ code \in 225..239

ClaimAppends(code) ==
  code = 128 \/ code = 160 \/ code \in 193..207 \/ code \in 225..239

ClaimPrefix(index, code) ==
  LET first == 97 + (index \div 26)
      second == 97 + (index % 26)
  IN <<IF ClaimCapitalizes(code) THEN first - 32 ELSE first, second>>

ClaimMorpheme(morpheme, previous, code, index) ==
  (IF ClaimPrepends(code)
     THEN SubSeq(previous, 1, Min(code % 16, Len(previous)))
     ELSE <<>>)
  \o morpheme
  \o (IF ClaimAppends(code) THEN suffixes[index + 1] ELSE <<>>)

\* C1: for every instruction byte, sampled prefix index, morpheme, previous word
\* and suffix index inside the table, ExpandMorpheme returns P + M: P the
\* two-letter prefix, its first letter upper case exactly for 0x20, 0x61-0x6F,
\* 0xA0, 0xE1-0xEF; M the morpheme with the first (code & 0x0F) characters of the
\* previous word prepended exactly for 0x41-0x4F, 0x61-0x6F, 0xC1-0xCF, 0xE1-0xEF
\* and suffixes[suffix_index] appended exactly for 0x80, 0xA0, 0xC1-0xCF,
\* 0xE1-0xEF; suffixes[0] is "ability"; every other code gives the lower-case
\* prefix followed by the morpheme unchanged.
C1_ExpandMatchesTable ==
  /\ suffixes[1] = <<97, 98, 105, 108, 105, 116, 121>>
  /\ pc = "return" =>
       /\ ret = ClaimPrefix(args.prefix_index, args.instruction)
                  \o ClaimMorpheme(args.morpheme, args.previous_morpheme,
                                   args.instruction, args.suffix_index)
       /\ (~ClaimCapitalizes(args.instruction) /\ ~ClaimPrepends(args.instruction)
             /\ ~ClaimAppends(args.instruction))
            => ret = <<97 + (args.prefix_index \div 26), 97 + (args.prefix_index % 26)>>
                       \o args.morpheme

\* reached: code 0xE3 on bucket "bb" capitalizes, splices "cat" before "ness" and
\* appends suffixes[40] = "able"
C1_Witness ==
  /\ pc = "return"
  /\ args.instruction = 227
  /\ args.suffix_index = 40
  /\ args.prefix_index = 27
  /\ args.previous_morpheme = <<99, 97, 116, 104, 111, 111, 100>>
  /\ args.morpheme = <<110, 101, 115, 115>>
  /\ ret = <<66, 98, 99, 97, 116, 110, 101, 115, 115, 97, 98, 108, 101>>

-----------------------------------------------------------------------------
(* GetSuffix called directly on sampled records and blobs.                 *)

\* the longest blob offset a sampled record names is 256 + 58
BlobLen == 340

\* a file whose byte k is 7k mod 59 (every byte a letter index), one that ends
\* early, and one holding bytes the alphabet does not have
BlobSample ==
  { [k \in 1..BlobLen |-> (7 * (k - 1)) % 59],
    [k \in 1..12 |-> (5 * (k - 1)) % 59],
    [k \in 1..BlobLen |-> (7 * (k - 1)) % 64] }

InitSuffix ==
  /\ pc = "call"
  /\ error = "none"
  /\ args \in [bytes : BlobSample,
               instructions : {<<0, b1, b2, b3>> : b1 \in 0..255, b2 \in {0, 4, 58, 59},
                                                   b3 \in {0, 1, 31}},
               base : {0, 3}]
  /\ ret = <<>>
  /\ steps = <<>>
  /\ IdleFile /\ IdleTrk /\ IdleTur

\* GetSuffix, lines 50-66
CallResolveSuffix ==
  /\ pc = "call"
  /\ LET r == ResolveSuffix(args.bytes, args.instructions, args.base)
     IN /\ error' = r.error
        /\ ret' = r.value
        /\ pc' = IF r.error = "none" THEN "resolved" ELSE "error"
  /\ UNCHANGED <<args, steps, fileVars, trkVars, turVars>>

\* GetSuffix, lines 68-70
CallReorderSuffix ==
  /\ pc = "resolved"
  /\ IF ReorderRaises(ret, At(args.instructions, 1))
       THEN pc' = "error" /\ error' = "IndexError" /\ ret' = <<>>
       ELSE /\ pc' = "return"
            /\ ret' = GetSuffixReodered(ret, At(args.instructions, 1))
            /\ error' = error
  /\ UNCHANGED <<args, steps, fileVars, trkVars, turVars>>

NextSuffix == CallResolveSuffix \/ CallReorderSuffix

SpecSuffix == InitSuffix /\ [][NextSuffix]_vars

ClaimLength(byte1) ==
  IF byte1 < 184 THEN byte1 \div 8 ELSE 3 + ((byte1 - 184) \div 24)

\* C4: the suffix GetSuffix resolves from a 4-byte record, before reordering, has
\* exactly length characters, length being byte1 div 8 (0..22) for byte1 < 0xB8
\* and 3 + (byte1 - 0xB8) div 24 (3..5) above; it is empty for length 0, made of
\* alphabet[byte2] (and alphabet[byte3]) for length 1 (2), and of the alphabet
\* letters of the length blob bytes from base_offset + byte2 + 256 * byte3 on for
\* length >= 3.
C4_ResolvedSuffix ==
  pc = "resolved" =>
    LET byte1 == args.instructions[2]
        byte2 == args.instructions[3]
        byte3 == args.instructions[4]
        length == ClaimLength(byte1)
        start == args.base + byte2 + 256 * byte3
    IN /\ Len(ret) = length
       /\ byte1 < 184 => length \in 0..22
       /\ byte1 >= 184 => length \in 3..5
       /\ length = 0 => ret = <<>>
       /\ length = 1 => ret = <<alphabet[byte2 + 1]>>
       /\ length = 2 => ret = <<alphabet[byte2 + 1], alphabet[byte3 + 1]>>
       /\ length >= 3 =>
            \A k \in 1..length : ret[k] = alphabet[args.bytes[start + k] + 1]

\* the records GetSuffix resolves no suffix from: it raises only when a letter
\* index is outside the 59-letter alphabet or a blob byte lies beyond the file
C4_RaisesOnlyOutOfRange ==
  (pc = "error" /\ steps = <<>>) =>
    LET byte1 == args.instructions[2]
        length == ClaimLength(byte1)
        start == args.base + args.instructions[3] + 256 * args.instructions[4]
    IN /\ error = "IndexError"
       /\ length \in 1..2 => \E k \in 1..length : args.instructions[2 + k] >= Len(alphabet)
       /\ length >= 3 =>
            \E k \in 1..length :
              \/ start + k > Len(args.bytes)
              \/ args.bytes[start + k] >= Len(alphabet)
       /\ length # 0

\* C4: every resolved suffix has the length and the characters the record's
\* bytes 1-3 determine (C4_ResolvedSuffix), and a record resolves to no suffix
\* only by an index outside the alphabet or the file (C4_RaisesOnlyOutOfRange).
C4_SuffixLengthAndContent == C4_ResolvedSuffix /\ C4_RaisesOnlyOutOfRange

\* reached: a 22-letter suffix read from the blob at base_offset 3 + offset 260
C4_Witness ==
  /\ pc = "resolved"
  /\ args.instructions = <<0, 183, 4, 1>>
  /\ args.base = 3
  /\ Len(ret) = 22
  /\ ret[1] = alphabet[((7 * 263) % 59) + 1]

-----------------------------------------------------------------------------
(* GetSuffixReodered applied once or twice to sampled suffixes.            *)

MaxReorderLen == 3

\* the strings over letters of at most n characters
Strings(letters, n) == UNION {[1..k -> letters] : k \in 0..n}

InitReorder ==
  /\ pc = "call"
  /\ error = "none"
  /\ args \in [suffix : Strings({97, 98, 99}, MaxReorderLen)]
  /\ ret = args.suffix
  /\ steps = <<>>
  /\ IdleFile /\ IdleTrk /\ IdleTur

\* one call on the result so far; a second call is made after a reordering
\* selector, with a reordering selector
CallGetSuffixReodered ==
  /\ pc = "call"
  /\ Len(steps) < 2
  /\ \E value \in 0..255 :
       /\ steps # <<>> => (steps[1] >= 184 /\ value >= 184)
       /\ steps' = Append(steps, value)
       /\ IF ReorderRaises(ret, value)
            THEN pc' = "error" /\ error' = "IndexError" /\ ret' = ret
            ELSE pc' = pc /\ error' = error /\ ret' = GetSuffixReodered(ret, value)
  /\ UNCHANGED <<args, fileVars, trkVars, turVars>>

NextReorder == CallGetSuffixReodered

SpecReorder == InitReorder /\ [][NextReorder]_vars

ClaimRotateRight(s) == [k \in 1..Len(s) |-> IF k = 1 THEN s[Len(s)] ELSE s[k - 1]]

ClaimRotateLeft(s) == [k \in 1..Len(s) |-> IF k = Len(s) THEN s[1] ELSE s[k + 1]]

ClaimReversal(s) == [k \in 1..Len(s) |-> s[Len(s) + 1 - k]]

\* the transform the selector picks: "right", "left", "reverse" or "identity"
ClaimTransform(byte1) ==
  IF byte1 < 184 THEN "identity"
  ELSE IF (byte1 - 184) % 24 \in 0..7 THEN "right"
  ELSE IF (byte1 - 184) % 24 \in 8..15 THEN "left"
  ELSE "reverse"

\* C5: on a non-empty suffix, the reversal applied twice, and rotate-right then
\* rotate-left (or left then right), give the suffix back; the transform is the
\* identity for every selector below 0xB8, and above it the bucket
\* (byte1 - 0xB8) mod 24 picks rotate-right (0..7), rotate-left (8..15) or
\* reversal (16..23).
C5_ReorderRoundTrip ==
  (pc = "call" /\ args.suffix # <<>>) =>
    /\ Len(steps) = 1 =>
         LET t == ClaimTransform(steps[1])
         IN /\ t = "identity" => ret = args.suffix
            /\ t = "right" => ret = ClaimRotateRight(args.suffix)
            /\ t = "left" => ret = ClaimRotateLeft(args.suffix)
            /\ t = "reverse" => ret = ClaimReversal(args.suffix)
    /\ Len(steps) = 2 =>
         LET t1 == ClaimTransform(steps[1])
             t2 == ClaimTransform(steps[2])
         IN /\ (t1 = "reverse" /\ t2 = "reverse") => ret = args.suffix
            /\ (t1 = "right" /\ t2 = "left") => ret = args.suffix
            /\ (t1 = "left" /\ t2 = "right") => ret = args.suffix

\* reached: "abc" rotated right (0xB8) to "cab" and back left (0xC0)
C5_Witness ==
  /\ pc = "call"
  /\ args.suffix = <<97, 98, 99>>
  /\ steps = <<184, 192>>
  /\ ret = <<97, 98, 99>>

-----------------------------------------------------------------------------
(* ApplyModifications called directly on sampled suffixes.                 *)

MaxModLen == 2

\* a, b, c, d, g, k, z, soft g
ModLetters == {97, 98, 99, 100, 103, 107, 122, 287}

InitModify ==
  /\ pc = "call"
  /\ error = "none"
  /\ args \in [modification : {<<0, 0, 0, 0>>, <<128, 65, 0, 0>>},
               prefix : {<<97, 98>>, <<100, 100>>},
               suffix : Strings(ModLetters, MaxModLen)]
  /\ ret = <<>>
  /\ steps = <<>>
  /\ IdleFile /\ IdleTrk /\ IdleTur

CallApplyModifications ==
  /\ pc = "call"
  /\ pc' = "return"
  /\ ret' = ApplyModifications(args.modification, args.prefix, args.suffix)
  /\ UNCHANGED <<error, args, steps, fileVars, trkVars, turVars>>

NextModify == CallApplyModifications

SpecModify == InitModify /\ [][NextModify]_vars

ClaimDevoiced(c) ==
  CASE c = 98 -> 112
    [] c = 99 -> 231
    [] c = 100 -> 116
    [] c = 103 -> 107
    [] c = 287 -> 107
    [] OTHER -> c

-----------------------------------------------------------------------------
(* ReadFile on English-Turkish containers built from sampled records.      *)

MaxRecords == 2

\* little-endian and middle-endian 3-byte fields
LittleEndian3(n) == <<n % 256, (n \div 256) % 256, n \div 65536>>

MiddleEndian3(n) == <<n \div 65536, n % 256, (n \div 256) % 256>>

\* The translation region of every sampled file starts 259 bytes after the offset
\* map: an empty string, the string k ` 0xFF 0x87, and a string holding 0xD5,
\* which cp857 does not define; each behind its 2-byte length.
TranslationRegionAt == 259

TranslationRegion == <<0, 0>> \o <<4, 0, 107, 96, 255, 135>> \o <<2, 0, 97, 213>>

\* the offset bytes of a record, by the kind of its translation
TranslationField(kind) ==
  CASE kind = "none" -> <<0, 0, 0>>
    [] kind = "empty" -> MiddleEndian3(TranslationRegionAt)
    [] kind = "text" -> MiddleEndian3(TranslationRegionAt + 2)
    [] kind = "undefined" -> MiddleEndian3(TranslationRegionAt + 8)
    [] kind = "far" -> <<1, 0, 0>>

\* the records sampled: instruction, suffix index, morpheme bytes, translation
Rec(instruction, suffix_index, morpheme, tr) ==
  [instruction |-> instruction, suffix_index |-> suffix_index,
   morpheme |-> morpheme, tr |-> tr]

RecordSample ==
  { Rec(0, 0, <<99, 97, 116, 104, 111, 111, 100>>, "none"),    \* 0x00 "cathood"
    Rec(67, 0, <<110, 101, 115, 115>>, "text"),                 \* 0x43 "ness"
    Rec(128, 40, <<114, 101, 97, 100>>, "empty"),               \* 0x80 "read" + able
    Rec(97, 0, <<108, 135>>, "text"),                           \* 0x61 "l" c-cedilla
    Rec(226, 0, <<>>, "far"),                                   \* offset 65536
    Rec(128, 200, <<120>>, "none"),                             \* no suffix 200
    Rec(0, 0, <<213>>, "none"),                                 \* undefined letter
    Rec(32, 0, <<97>>, "undefined") }                           \* undefined text

BucketSample == {0, 27, 675}

EncodeRecord(r) ==
  <<r.instruction>> \o (IF r.instruction >= 128 THEN <<r.suffix_index>> ELSE <<>>)
    \o r.morpheme \o <<255>> \o TranslationField(r.tr)

RECURSIVE StreamLength(_, _, _)
\* the encoded length of those of the first k records that lie in buckets up to b
StreamLength(in, b, k) ==
  IF k = 0 THEN 0
  ELSE StreamLength(in, b, k - 1)
         + (IF in.buckets[k] <= b THEN Len(EncodeRecord(in.records[k])) ELSE 0)

\* header, offset map (the end of each bucket's records), records, padding,
\* translations
EncodeTrk(in) ==
  LET n == Len(in.records)
      stream == Concat([k \in 1..n |-> EncodeRecord(in.records[k])])
  IN <<0, 0, 0>>
     \o [k \in 1..(3 * 26 * 26) |->
           LittleEndian3(StreamLength(in, (k - 1) \div 3, n))[((k - 1) % 3) + 1]]
     \o stream
     \o [k \in 1..(TranslationRegionAt - Len(stream)) |-> 0]
     \o TranslationRegion

\* the sampled inputs: up to MaxRecords records in buckets that do not decrease
TrkInputs ==
  UNION { { [records |-> rs, buckets |-> bs] :
              rs \in [1..n -> RecordSample],
              bs \in {f \in [1..n -> BucketSample] :
                        \A k \in 1..(n - 1) : f[k] <= f[k + 1]} } :
          n \in 0..MaxRecords }

InitTrk ==
  /\ pc = "start"
  /\ error = "none"
  /\ input \in TrkInputs
  /\ data = EncodeTrk(input)
  /\ pos = 0
  /\ base_offset = 0
  /\ dictionary = <<>>
  /\ output = <<>>
  /\ offsets = <<>>
  /\ i = 0
  /\ previous_word = <<>>
  /\ entry = [tr_len |-> -1]
  /\ IdleTur /\ IdleCall

NextTrk == ReadOffsets \/ ReadEntry \/ ExportTrk

SpecTrk == InitTrk /\ [][NextTrk]_vars

\* a headword without its two-letter prefix
ClaimTail(w) == SubSeq(w, 3, Len(w))

\* C2: the previous_word handed to ExpandMorpheme for a record is the headword of
\* the record just before it without its two-character prefix (empty for the
\* first record), also when the prefix index has advanced in between; so a record
\* 0x43 "ness" after a headword whose tail is "cathood" gives prefix + "cat" +
\* "ness".
C2_PreviousWordThreaded ==
  /\ pc = "loop" =>
       previous_word = IF dictionary = <<>> THEN <<>>
                       ELSE ClaimTail(dictionary[Len(dictionary)][1])
  /\ \A k \in 1..Len(dictionary) :
       LET r == input.records[k]
           previous == IF k = 1 THEN <<>> ELSE ClaimTail(dictionary[k - 1][1])
       IN /\ dictionary[k][1] =
               ClaimPrefix(input.buckets[k], r.instruction)
                 \o ClaimMorpheme(Decode(r.morpheme), previous, r.instruction,
                                  r.suffix_index)
          /\ (/\ r.instruction = 67
              /\ r.morpheme = <<110, 101, 115, 115>>
              /\ previous = <<99, 97, 116, 104, 111, 111, 100>>)
               => dictionary[k][1] =
                    <<97 + (input.buckets[k] \div 26), 97 + (input.buckets[k] % 26)>>
                      \o <<99, 97, 116>> \o <<110, 101, 115, 115>>

\* reached: "aacathood" in bucket aa, then 0x43 "ness" in bucket bb: "bbcatness"
C2_Witness ==
  /\ pc = "loop"
  /\ input.buckets = <<0, 27>>
  /\ Len(dictionary) = 2
  /\ dictionary[1][1] = <<97, 97, 99, 97, 116, 104, 111, 111, 100>>
  /\ dictionary[2][1] = <<98, 98, 99, 97, 116, 110, 101, 115, 115>>
  /\ previous_word = <<99, 97, 116, 110, 101, 115, 115>>

\* the sampled records on which ReadFile has to raise: a translation offset or
\* suffix index outside the file or table, a byte cp857 does not define
ClaimUnreadable(r) ==
  \/ r.tr \in {"far", "undefined"}
  \/ (r.instruction >= 128 /\ r.suffix_index >= Len(suffixes))
  \/ \E j \in 1..Len(r.morpheme) : cp857[r.morpheme[j] + 1] = -1

\* C7: a record whose middle-endian translation offset (byte1 | byte2 << 8 |
\* byte0 << 16) is zero, or whose little-endian 2-byte length at base + offset is
\* zero, gets the empty translation, raises nothing, and the decode goes on with
\* the next record; otherwise the translation is read from the length bytes
\* behind that length field; base is the position just behind the 676-entry
\* offset map.
C7_EmptyTranslation ==
  /\ pc \in {"loop", "done"} =>
       /\ base_offset = 3 + 3 * 676
       /\ pos = base_offset + StreamLength(input, 675, Len(dictionary))
  /\ (pc = "loop" /\ dictionary # <<>>) =>
       LET byte0 == data[pos - 2]
           byte1 == data[pos - 1]
           byte2 == data[pos]
           offset == byte1 + 256 * byte2 + 65536 * byte0
           at == 3 + 3 * 676 + offset
           length == data[at + 1] + 256 * data[at + 2]
           turkish == dictionary[Len(dictionary)][2]
       IN /\ entry.tr_offset = offset
          /\ entry.turkish = turkish
          /\ offset = 0 => turkish = <<>>
          /\ (offset # 0 /\ length = 0) => turkish = <<>>
          /\ (offset # 0 /\ length # 0) =>
               /\ Len(turkish) = length
               /\ turkish = Replaced(Decode(SubSeq(data, at + 3, at + 2 + length)))
  /\ \A k \in 1..Len(dictionary) :
       /\ input.records[k].tr \in {"none", "empty"} => dictionary[k][2] = <<>>
       /\ input.records[k].tr = "text" => dictionary[k][2] = <<107, 39, 35, 231>>
  /\ pc = "error" => ClaimUnreadable(input.records[Len(dictionary) + 1])
  /\ pc = "done" => Len(dictionary) = Len(input.records)

\* reached: a record with offset zero, then one with length zero, both decoded
\* with empty translations, and the file read to its end
C7_Witness ==
  /\ pc = "done"
  /\ Len(input.records) = 2
  /\ input.records[1].tr = "none"
  /\ input.records[2].tr = "empty"
  /\ dictionary = << <<<<97, 97, 99, 97, 116, 104, 111, 111, 100>>, <<>> >>,
                     <<<<97, 97, 114, 101, 97, 100, 97, 98, 108, 101>>, <<>> >> >>

-----------------------------------------------------------------------------
(* Import and Export on Turkish containers built from sampled records.     *)

MaxEntries == 2

MaxSection3 == 1

\* the magic number 0x4D 0x47 0x32 0x1A
Magic == <<77, 71, 50, 26>>

\* the suffix blob of every sampled file: the letters k i t a b
Blob == <<13, 11, 24, 0, 1>>

\* its one modification record
Modifications == << <<15, 65, 0, 0>> >>

\* the section-4 records sampled: "d" by letter index; "tab" from the blob;
\* "kit" from the blob, reversed
Section4Sample == { <<0, 8, 4, 0>>, <<0, 24, 2, 0>>, <<0, 200, 0, 0>> }

\* the prefixes aa, bb and zz
TurBucketSample == {0, 33, 1023}

\* How a sampled file departs from a well-formed one: not at all; another magic
\* number; one record more in section4 than section2 accounts for; a section2
\* whose first offset is 1; the file cut inside the header, section2, a section-3
\* value, behind the last section-3 value, inside section4, before section6.
Variants ==
  {"ok", "magic", "spare", "dip", "cut_header", "cut_section2", "cut_section3",
   "cut_section3_tail", "cut_section4", "cut_section6"}

WordLE(n) == <<n % 256, n \div 256>>

\* a sequence of words as bytes
WordsLE(ws) == [k \in 1..(2 * Len(ws)) |-> WordLE(ws[((k - 1) \div 2) + 1])[((k - 1) % 2) + 1]]

\* section2 of a sampled file: before each prefix index, the number of records in
\* the buckets below it
Section2Of(in) ==
  [j \in 1..(letter_count * letter_count + 1) |->
     IF j = 1 THEN (IF in.variant = "dip" THEN 1 ELSE 0)
     ELSE Cardinality({k \in 1..Len(in.buckets) : in.buckets[k] < j - 1})]

Section4Of(in) ==
  IF in.variant = "spare" THEN Append(in.records, <<0, 8, 0, 0>>) ELSE in.records

\* the whole file, and the length the variant cuts it to
FullTur(in) ==
  (IF in.variant = "magic" THEN <<77, 71, 51, 26>> ELSE Magic)
    \o WordsLE(<<Len(Section4Of(in)), in.section3, Len(Blob), Len(Modifications)>>)
    \o WordsLE([k \in 1..(letter_count + 1) |-> IF k = letter_count + 1 THEN in.section3 ELSE 0])
    \o WordsLE(Section2Of(in))
    \o [k \in 1..(14 * in.section3) |-> 170]
    \o Concat(Section4Of(in))
    \o Blob
    \o Concat(Modifications)

CutAt(in) ==
  LET section3_at == 12 + 66 + 2050
      section4_at == section3_at + 14 * in.section3
      section6_at == section4_at + 4 * Len(Section4Of(in)) + Len(Blob)
  IN CASE in.variant = "cut_header" -> 11
       [] in.variant = "cut_section2" -> section3_at - 1
       [] in.variant = "cut_section3" -> section4_at - 12
       [] in.variant = "cut_section3_tail" -> section4_at - 11
       [] in.variant = "cut_section4" -> section4_at + 2
       [] in.variant = "cut_section6" -> section6_at
       [] OTHER -> section6_at + 4 * Len(Modifications)

EncodeTur(in) == SubSeq(FullTur(in), 1, CutAt(in))

\* a cut can be made only where the file has something to cut
Applicable(in) ==
  /\ in.variant \in {"cut_section3", "cut_section3_tail"} => in.section3 > 0
  /\ in.variant = "cut_section4" => in.records # <<>>

\* the sampled inputs: up to MaxEntries records in buckets that do not decrease,
\* no or MaxSection3 section-3 entries, one variant
TurInputs ==
  UNION { { in \in [records : [1..n -> Section4Sample],
                    buckets : {f \in [1..n -> TurBucketSample] :
                                 \A k \in 1..(n - 1) : f[k] <= f[k + 1]},
                    section3 : {0, MaxSection3},
                    variant : Variants] : Applicable(in) } :
          n \in 0..MaxEntries }

InitTur ==
  /\ pc = "start"
  /\ error = "none"
  /\ input \in TurInputs
  /\ data = EncodeTur(input)
  /\ pos = 0
  /\ base_offset = 0
  /\ dictionary = <<>>
  /\ output = <<>>
  /\ header = <<>>
  /\ prefixes = <<>>
  /\ section4 = <<>>
  /\ section6 = <<>>
  /\ item_index = 0
  /\ prefix_pos = 0
  /\ offsets = <<>>
  /\ i = 0
  /\ previous_word = <<>>
  /\ entry = <<>>
  /\ IdleCall

NextTur ==
  \/ ReadHeader
  \/ ReadSection1
  \/ ReadSection2
  \/ ReadSection3
  \/ ReadSection4
  \/ SkipSection5
  \/ ReadSection6
  \/ ReadDictionaryEntry
  \/ NextPrefix
  \/ ExportTur

SpecTur == InitTur /\ [][NextTur]_vars

\* ReadDictionaryEntries has returned
Returned == pc = "done" \/ (pc = "entries" /\ prefix_pos = Len(prefixes))

\* word k of section2, from the file: it starts at byte 12 + 66
ClaimSection2(k) == data[78 + 2 * k + 1] + 256 * data[78 + 2 * k + 2]

\* entry_count[j] = section2[j + 1] - section2[j]
ClaimCount(j) == ClaimSection2(j + 1) - ClaimSection2(j)

RECURSIVE ClaimSum(_, _, _)
\* f(lo) + ... + f(hi), by halves
ClaimSum(f(_), lo, hi) ==
  IF lo > hi THEN 0
  ELSE IF lo = hi THEN f(lo)
  ELSE LET mid == (lo + hi) \div 2
       IN ClaimSum(f, lo, mid) + ClaimSum(f, mid + 1, hi)

ClaimPositiveCount(j) == Max(ClaimCount(j), 0)

ClaimIncreasing == \A j \in 0..1023 : ClaimCount(j) >= 0

ClaimHeader(k) == data[4 + 2 * k + 1] + 256 * data[4 + 2 * k + 2]

ClaimMagicMismatch == SubSeq(data, 1, 4) # <<77, 71, 50, 26>>

\* a section the header declares ends behind the end of the file
ClaimOverrun ==
  \/ Len(data) < 12
  \/ Len(data) < 12 + 66 + 2050 + 14 * ClaimHeader(1) + 4 * ClaimHeader(0)
                   + ClaimHeader(2) + 4 * ClaimHeader(3)

ClaimUnpacked ==
  IF Len(data) < 12 THEN 12
  ELSE 12 + 66 + 2050
         + (IF ClaimHeader(1) = 0 THEN 0 ELSE 14 * (ClaimHeader(1) - 1) + 3)

C9_Original ==
  /\ pc = "section4" => pos = 12 + 66 + 2050 + 3 * ClaimHeader(1)
  /\ pc = "section5" => pos = 12 + 66 + 2050 + 3 * ClaimHeader(1) + 4 * ClaimHeader(0)
  /\ pc = "section6" =>
       /\ base_offset = 12 + 66 + 2050 + 3 * ClaimHeader(1) + 4 * ClaimHeader(0)
       /\ pos = base_offset + ClaimHeader(2)

\* C9, amended: section 3 takes 14 bytes per entry (1 skipped, a 2-byte value, 11
\* skipped), so the first section4 record is at 12 + 66 + 2050 + 14 * header[1],
\* the suffix blob (base_offset) 4 * header[0] bytes behind it, and section6
\* header[2] bytes behind that.
C9_SectionOffsets ==
  /\ pc = "section4" => pos = 12 + 66 + 2050 + 14 * ClaimHeader(1)
  /\ pc = "section5" => pos = 12 + 66 + 2050 + 14 * ClaimHeader(1) + 4 * ClaimHeader(0)
  /\ pc \in {"section6", "entries", "done"} =>
       base_offset = 12 + 66 + 2050 + 14 * ClaimHeader(1) + 4 * ClaimHeader(0)
  /\ pc = "section6" => pos = base_offset + ClaimHeader(2)
  /\ pc \in {"entries", "done"} => pos = base_offset + ClaimHeader(2) + 4 * ClaimHeader(3)

\* reached: one section-3 entry and two records, the blob at 2128 + 14 + 8
C9_Witness ==
  /\ pc = "section6"
  /\ header = <<2, 1, 5, 1>>
  /\ base_offset = 2150
  /\ pos = 2155

\* the headword of section4 record k under prefix index j, as text
ClaimHeadword(j, k) ==
  LET suffix == GetSuffix(data, section4[k], base_offset).value
  IN TurPrefix(j) \o ApplyModifications(<<>>, TurPrefix(j), suffix)[2]

\* C10: every line written for the Turkish container is one assembled headword,
\* the two-letter prefix of its bucket followed by the resolved and modified
\* suffix of its section4 record and nothing else, and the k-th line is the one
\* built from the k-th section4 record.
C10_Original ==
  pc = "done" =>
    \A k \in 1..Len(output) :
      \E j \in 0..1023 :
        /\ ClaimCount(j) > 0
        /\ output[k] = ClaimHeadword(j, k) \o <<10>>

====
